---- MODULE Spec2Model ----
(***************************************************************************)
(* The stick-to-bottom scroll engine of useStickToBottom (element mode).   *)
(*                                                                         *)
(* The model holds the engine's state record, the closures of its pending  *)
(* callbacks (animation loops, deferred scroll checks, resize resets) and  *)
(* the part of the browser the engine talks to: the scroll surface's       *)
(* geometry, the pending scroll notification, the ResizeObserver, the      *)
(* animation-frame callback list and the 1ms timers.                       *)
(*                                                                         *)
(* Browser scheduling ("update the rendering"): a frame dispatches the     *)
(* pending scroll notification, then runs the animation-frame callbacks    *)
(* registered before the frame in registration order, then lays out and    *)
(* delivers the ResizeObserver notification.  Timers, user input, content  *)
(* changes and API calls run between frames; equal-delay timers run in     *)
(* the order they were set.                                                *)
(*                                                                         *)
(* Units: offsets and heights are whole pixels (the scroll surface keeps   *)
(* whole-pixel offsets, which is why the engine reads scrollTop back after *)
(* writing it); velocity and accumulated are in 1/Scale pixel; time is in  *)
(* milliseconds and advances when a frame starts, by a multiple of FrameMs *)
(* (the frame rate of the device).  Delays shorter than a frame (the 1ms   *)
(* timers, the 1ms of Number(true)) are orderings, not durations.          *)
(***************************************************************************)
EXTENDS Integers, Sequences, FiniteSets, TLC

\* ---------------------------------------------------------------- bounds
ClientHeight == 100
SmallOverflow == 2
BigOverflow == 73
FrameMs == 175
MaxDt == 2
MaxEnv == 2
MaxProgramEnv == 3
MaxTimers == 2
MaxSources == 3
MaxMergeCalls == 2
ScenarioViewport == 500
ScenarioContent == 500
ScenarioGrown == 1501
Scale == 100

\* ------------------------------------------------------ program constants
STICK_TO_BOTTOM_OFFSET_PX == 70
RETAIN_ANIMATION_DURATION_MS == 350
SIXTY_FPS == 60
MS_PER_SECOND == 1000
NUMBER_TRUE == 1

Undef == 0 - 1

Min(a, b) == IF a < b THEN a ELSE b
Max(a, b) == IF a > b THEN a ELSE b

\* x * (ms / SIXTY_FPS_INTERVAL_MS), with SIXTY_FPS_INTERVAL_MS = 1000 / 60.
TimesTickDelta(x, ms) == (x * ms * SIXTY_FPS) \div MS_PER_SECOND

\* ------------------------------------------------------------ animations
\* A resolved behavior: "instant" or a fully populated spring triple, in
\* hundredths.  Equal triples are the same cached object, so equality of
\* values stands for identity.
Instant == [instant |-> TRUE, damping |-> 0, stiffness |-> 0, mass |-> 0]
Spring(d, s, m) == [instant |-> FALSE, damping |-> d, stiffness |-> s, mass |-> m]

DEFAULT_SPRING_ANIMATION == Spring(70, 5, 125)

\* A source of mergeAnimations: 'instant', an object with optional fields, or
\* a value that is neither (undefined, true, false).
SrcInstant == [kind |-> "instant", damping |-> Undef, stiffness |-> Undef, mass |-> Undef]
SrcObject(d, s, m) == [kind |-> "object", damping |-> d, stiffness |-> s, mass |-> m]
SrcUndefined == [kind |-> "undefined", damping |-> Undef, stiffness |-> Undef, mass |-> Undef]
SrcFalse == [kind |-> "false", damping |-> Undef, stiffness |-> Undef, mass |-> Undef]

Coalesce(a, b) == IF a = Undef THEN b ELSE a

RECURSIVE MergeFrom(_, _, _)
MergeFrom(animations, result, instant) ==
    IF animations = <<>> THEN (IF instant THEN Instant ELSE result)
    ELSE LET animation == Head(animations)
             rest == Tail(animations)
         IN  IF animation.kind = "instant" THEN MergeFrom(rest, result, TRUE)
             ELSE IF animation.kind # "object" THEN MergeFrom(rest, result, instant)
             ELSE MergeFrom(rest,
                            Spring(Coalesce(animation.damping, result.damping),
                                   Coalesce(animation.stiffness, result.stiffness),
                                   Coalesce(animation.mass, result.mass)),
                            FALSE)

mergeAnimations(animations) == MergeFrom(animations, DEFAULT_SPRING_ANIMATION, FALSE)

\* The hook's options object is itself the first source of every merge.
OptionsSource(o) == SrcObject(o.damping, o.stiffness, o.mass)

\* ------------------------------------------------------- configurations
DefaultOptions ==
    [damping |-> Undef, stiffness |-> Undef, mass |-> Undef,
     resize |-> SrcUndefined, initial |-> SrcUndefined]

Configs ==
    { DefaultOptions,
      [DefaultOptions EXCEPT !.initial = SrcInstant],
      [DefaultOptions EXCEPT !.initial = SrcFalse] }

Heights == {0, ClientHeight + BigOverflow, ClientHeight + BigOverflow + SmallOverflow}

VARIABLES
    options,            \* optionsRef.current
    scrollMode,         \* options.scrollMode: element | document
    clientHeight,       \* height of the scroll surface's viewport
    contentHeight,      \* height of the content surface
    domTop,             \* scrollTop of the scroll surface
    scrollEvt,          \* a scroll notification is pending on the surface
    evtCause,           \* what moved the offset since the last notification
    selecting,          \* isSelecting(): mouse down with a selection on the surface
    lastScrollTop, ignoreScrollToTop, resizeDifference, animation,
    lastTick, sinceTick, velocity, accumulated,
    escapedFromLock, isAtBottom,
    previousHeight,     \* the ResizeObserver callback's previousHeight
    loops,              \* closures of the scrollToBottom loops in flight
    rafQueue,           \* animation-frame callbacks registered for the next frame
    frame,              \* callbacks of the frame being run
    timers,             \* 1ms timers, in the order they were set
    phase,              \* idle | scroll | raf
    nextId, budget,
    integrated,         \* offset writes of animation loops in the current frame
    ev,                 \* the step just taken and what it did
    animationCache,     \* the module's Map from JSON key to cached object
    objects,            \* the cached objects: a reference is an index
    results,            \* the spring results returned so far, as returned
    merged,             \* the last mergeAnimations call and what it returned
    lastCalculation,    \* the closure variable of the state's getters
    resolved            \* the last read of calculatedTargetScrollTop

vars == <<options, contentHeight, domTop, scrollEvt, selecting, lastScrollTop,
          ignoreScrollToTop, resizeDifference, animation, lastTick, sinceTick,
          velocity, accumulated, escapedFromLock, isAtBottom, previousHeight,
          loops, rafQueue, frame, timers, phase, nextId, budget, ev, evtCause,
          integrated, clientHeight, scrollMode>>


mergeVars == <<animationCache, objects, results, merged>>
targetVars == <<lastCalculation, resolved>>

\* The state as one record, so that a handler reads as the code does: a
\* sequence of reads and assignments on `state` and on the browser.
St ==
    [options |-> options, contentHeight |-> contentHeight, domTop |-> domTop,
     scrollEvt |-> scrollEvt, selecting |-> selecting,
     lastScrollTop |-> lastScrollTop, ignoreScrollToTop |-> ignoreScrollToTop,
     resizeDifference |-> resizeDifference, animation |-> animation,
     lastTick |-> lastTick, sinceTick |-> sinceTick, velocity |-> velocity,
     accumulated |-> accumulated, escapedFromLock |-> escapedFromLock,
     isAtBottom |-> isAtBottom, previousHeight |-> previousHeight,
     loops |-> loops, rafQueue |-> rafQueue, frame |-> frame, timers |-> timers,
     phase |-> phase, nextId |-> nextId, budget |-> budget, ev |-> ev,
     evtCause |-> evtCause, integrated |-> integrated,
     clientHeight |-> clientHeight, scrollMode |-> scrollMode]

Commit(s) ==
    /\ options' = s.options
    /\ contentHeight' = s.contentHeight
    /\ domTop' = s.domTop
    /\ scrollEvt' = s.scrollEvt
    /\ selecting' = s.selecting
    /\ lastScrollTop' = s.lastScrollTop
    /\ ignoreScrollToTop' = s.ignoreScrollToTop
    /\ resizeDifference' = s.resizeDifference
    /\ animation' = s.animation
    /\ lastTick' = s.lastTick
    /\ sinceTick' = s.sinceTick
    /\ velocity' = s.velocity
    /\ accumulated' = s.accumulated
    /\ escapedFromLock' = s.escapedFromLock
    /\ isAtBottom' = s.isAtBottom
    /\ previousHeight' = s.previousHeight
    /\ loops' = s.loops
    /\ rafQueue' = s.rafQueue
    /\ frame' = s.frame
    /\ timers' = s.timers
    /\ phase' = s.phase
    /\ nextId' = s.nextId
    /\ budget' = s.budget
    /\ ev' = s.ev
    /\ evtCause' = s.evtCause
    /\ integrated' = s.integrated
    /\ clientHeight' = s.clientHeight
    /\ scrollMode' = s.scrollMode
    /\ UNCHANGED mergeVars
    /\ UNCHANGED targetVars

\* ------------------------------------------------------------ geometry
\* getScrollDimensions: the surface is at least as tall as its viewport.
ScrollHeight(s) == Max(s.contentHeight, s.clientHeight)
MaxScrollTop(s) == ScrollHeight(s) - s.clientHeight

\* The browser lays out before any geometry is read: an offset beyond the
\* scrollable range is clamped, which queues a scroll notification.
Caused(cause, by) == IF cause \in {"none", by} THEN by ELSE "mixed"

Layout(s) ==
    IF s.domTop > MaxScrollTop(s)
    THEN [s EXCEPT !.domTop = MaxScrollTop(s), !.scrollEvt = TRUE,
                   !.evtCause = Caused(@, "resize")]
    ELSE s

getScrollTop(s) == s.domTop

targetScrollTopNoViewport(s) == Max(0, ScrollHeight(s) - 1)

targetScrollTop(s) == Max(0, ScrollHeight(s) - 1 - s.clientHeight)

\* No custom target resolver is configured (optionsRef.current.targetScrollTop).
calculatedTargetScrollTop(s) == targetScrollTop(s)

scrollDifference(s) == calculatedTargetScrollTop(s) - getScrollTop(s)

isNearBottom(s) == scrollDifference(s) <= STICK_TO_BOTTOM_OFFSET_PX

\* setScrollTop: the surface clamps the written offset to its range; a write
\* that moves the offset queues a scroll notification; the engine records the
\* offset it reads back.
setScrollTop(s, top) ==
    LET new == Max(0, Min(top, MaxScrollTop(s)))
    IN  [s EXCEPT !.domTop = new,
                  !.scrollEvt = @ \/ new # s.domTop,
                  !.evtCause = IF new # s.domTop THEN Caused(@, "write") ELSE @,
                  !.ignoreScrollToTop = new]

setIsAtBottom(s, b) == [s EXCEPT !.isAtBottom = b]
setEscapedFromLock(s, b) == [s EXCEPT !.escapedFromLock = b]

\* ------------------------------------------------------ scrollToBottom
NoAnimation == [set |-> FALSE, behavior |-> Instant, ignoreEscapes |-> FALSE, promise |-> 0]

BehaviorSource(b) ==
    IF b.instant THEN SrcInstant ELSE SrcObject(b.damping, b.stiffness, b.mass)

\* scrollOptions; wait is true (waitTrue) or a number of ms (0 for false or
\* absent); duration is a number of ms (0 for absent) or a Promise.
ScrollOptions(anim, waitTrue, waitMs, ignoreEscapes, preserve, duration) ==
    [animation |-> anim, waitTrue |-> waitTrue, waitMs |-> waitMs,
     ignoreEscapes |-> ignoreEscapes, preserveScrollPosition |-> preserve,
     duration |-> duration, durationPromise |-> FALSE]

\* The same options with a pending Promise as duration.
UntilSettled(o) == [o EXCEPT !.duration = 0, !.durationPromise = TRUE]

NextCallback(id) == [type |-> "next", id |-> id, difference |-> 0]
ExitResetCallback == [type |-> "exitReset", id |-> 0, difference |-> 0]
ResizeResetCallback(d) == [type |-> "resizeReset", id |-> 0, difference |-> d]

RemoveLoop(ls, id) == [i \in (DOMAIN ls) \ {id} |-> ls[i]]

\* The call's closure (behavior, ignoreEscapes, waitElapsed, durationElapsed,
\* startTarget) and its first next(): a promise on the next animation frame.
\* `need` is how long the calls served by this loop's promise still have to
\* wait (their wait plus extra duration); `stopped` tells that stopScroll ran
\* since the loop's last frame and no call took the lock back; `superseded`
\* that a later call cancelled the animation of this loop; `atTarget` that the
\* call had no wait, no duration and no preserveScrollPosition and found the
\* offset equal to calculatedTargetScrollTop; `heldOff` that the call preserved
\* the scroll position and found isAtBottom false.  None of them is read by the engine.
\* A chained call made from inside a loop (fresh = FALSE) continues under the
\* promise of the loop that returned it.
lockAlways(s, o) ==
    [setIsAtBottom(s, TRUE) EXCEPT
        !.loops = [i \in DOMAIN @ |-> [@[i] EXCEPT !.stopped = FALSE]]]

\* A call takes the lock unless it preserves the scroll position.
lockUnlessPreserved(s, o) ==
    IF ~o.preserveScrollPosition
    THEN [setIsAtBottom(s, TRUE) EXCEPT
             !.loops = [i \in DOMAIN @ |-> [@[i] EXCEPT !.stopped = FALSE]]]
    ELSE s

scrollToBottom(s0, o, fresh, self) ==
    LET s1 == lockUnlessPreserved(s0, o)
        waitMs0 == IF o.waitTrue THEN NUMBER_TRUE ELSE o.waitMs
        behavior == mergeAnimations(<<OptionsSource(s1.options), o.animation>>)
        \* `durationElapsed` stays unassigned while a duration Promise is pending
        durationMs == IF o.durationPromise THEN 0 ELSE waitMs0 + o.duration
        startTarget == calculatedTargetScrollTop(s1)
        s2 == IF ~o.waitTrue THEN [s1 EXCEPT !.animation = NoAnimation] ELSE s1
        id == IF fresh THEN s2.nextId ELSE self
        closure == [behavior |-> behavior, ignoreEscapes |-> o.ignoreEscapes,
                    waitLeft |-> waitMs0, durLeft |-> durationMs,
                    durationPending |-> o.durationPromise,
                    waited |-> o.waitTrue,
                    startTarget |-> startTarget,
                    need |-> IF fresh THEN durationMs
                             ELSE Max(s0.loops[self].need, durationMs),
                    stopped |-> FALSE, superseded |-> FALSE,
                    heldOff |-> o.preserveScrollPosition /\ ~s0.isAtBottom,
                    atTarget |-> /\ fresh /\ ~o.preserveScrollPosition
                                 /\ waitMs0 = 0 /\ o.duration = 0
                                 /\ ~o.durationPromise
                                 /\ getScrollTop(s1) = startTarget]
        \* the animation in flight that this call cancels
        cancelled == IF /\ ~o.waitTrue /\ s1.animation.set
                        /\ s1.animation.behavior # behavior
                        /\ s1.animation.promise \in DOMAIN s1.loops
                     THEN {s1.animation.promise} ELSE {}
        sameInFlight == \E i \in DOMAIN s0.loops :
                           /\ fresh \/ i # self
                           /\ s0.loops[i].behavior = behavior
        Mark(ls) == [i \in DOMAIN ls |->
                        IF i \in cancelled THEN [ls[i] EXCEPT !.superseded = TRUE]
                        ELSE ls[i]]
    IN  IF s2.animation.set /\ s2.animation.behavior = behavior
        THEN \* return state.animation.promise
             LET p == s2.animation.promise
             IN  [s2 EXCEPT !.loops[p].need = Max(@, durationMs),
                            !.ev = [type |-> "call", promise |-> p, started |-> FALSE,
                                    behavior |-> behavior,
                                    wait |-> o.waitTrue,
                                    animationBefore |-> s0.animation,
                                    sameInFlight |-> sameInFlight]]
        ELSE \* return next()
             [s2 EXCEPT !.loops = (id :> closure) @@ RemoveLoop(Mark(@), id),
                        !.rafQueue = Append(@, NextCallback(id)),
                        !.nextId = IF fresh THEN @ + 1 ELSE @,
                        !.ev = [type |-> "call", promise |-> id, started |-> TRUE,
                                behavior |-> behavior,
                                wait |-> o.waitTrue,
                                animationBefore |-> s0.animation,
                                sameInFlight |-> sameInFlight]]

SpringVelocityNoStiffness(behavior, v, difference) ==
    (behavior.damping * v) \div behavior.mass

\* One spring step: velocity, accumulated, and the offset write.  The offset
\* the surface keeps is whole pixels; accumulated is cleared when the write
\* moved the offset.
SpringVelocity(behavior, v, difference) ==
    (behavior.damping * v + behavior.stiffness * difference * Scale) \div behavior.mass

SpringStepResetsWhenStill(s, behavior, scrollTop, sinceLastTick) ==
    LET v == SpringVelocity(behavior, s.velocity, scrollDifference(s))
        acc == s.accumulated + TimesTickDelta(v, sinceLastTick)
        s1 == setScrollTop([s EXCEPT !.velocity = v, !.accumulated = acc],
                           getScrollTop(s) + (acc \div Scale))
    IN  IF getScrollTop(s1) = scrollTop THEN [s1 EXCEPT !.accumulated = 0] ELSE s1

SpringStep(s, behavior, scrollTop, sinceLastTick) ==
    LET v == SpringVelocity(behavior, s.velocity, scrollDifference(s))
        acc == s.accumulated + TimesTickDelta(v, sinceLastTick)
        s1 == setScrollTop([s EXCEPT !.velocity = v, !.accumulated = acc],
                           getScrollTop(s) + (acc \div Scale))
    IN  IF getScrollTop(s1) # scrollTop THEN [s1 EXCEPT !.accumulated = 0] ELSE s1

\* The promise of loop `id` settles: the loop is gone and the post-exit reset
\* is registered for the next frame.
NextEv(s, id, act, value) ==
    [type |-> "next", id |-> id, act |-> act, value |-> value,
     need |-> s.loops[id].need, stopped |-> s.loops[id].stopped,
     superseded |-> s.loops[id].superseded,
     atTarget |-> s.loops[id].atTarget,
     durationPending |-> s.loops[id].durationPending,
     waited |-> s.loops[id].waited,
     behavior |-> s.loops[id].behavior,
     heldOff |-> s.loops[id].heldOff]

Settle(s, id, value, act) ==
    [s EXCEPT !.loops = RemoveLoop(@, id),
              !.rafQueue = Append(@, ExitResetCallback),
              !.ev = NextEv(s, id, act, value)]

Continue(s, id, act) ==
    [s EXCEPT !.rafQueue = Append(@, NextCallback(id)),
              !.loops[id].stopped = FALSE,
              !.integrated = IF act \in {"jump", "spring"} THEN @ + 1 ELSE @,
              !.ev = NextEv(s, id, act, FALSE)]

ShortOfOrAt(scrollTop, target) == scrollTop <= target

\* `durationElapsed > Date.now()`: an unassigned durationElapsed is undefined,
\* which compares false with every number.
DurationAhead(c) == IF c.durationPending THEN FALSE ELSE c.durLeft > 0

\* The offset is still short of the target: the loop has to move it.
ShortOf(scrollTop, target) == scrollTop < target

OwnsAlways(anim, behavior) == TRUE

\* `state.animation.behavior === behavior`: the slot is held by an animation
\* of this loop's behavior.
Owns(anim, behavior) == anim.behavior = behavior

instantJumpToStartTarget(s, c) == setScrollTop(s, c.startTarget)

\* The instant branch: the offset goes to the target as it is now.
instantJump(s, c) == setScrollTop(s, calculatedTargetScrollTop(s))

\* The animation-frame callback of next().
next(s0, id) ==
    IF ~s0.isAtBottom
    THEN Settle([s0 EXCEPT !.animation = NoAnimation], id, FALSE, "abandon")
    ELSE
    LET s == Layout(s0)
        c == s.loops[id]
        behavior == c.behavior
        scrollTop == getScrollTop(s)
        sinceLastTick == IF s.lastTick THEN s.sinceTick ELSE 0
        anim == IF s.animation.set THEN s.animation
                ELSE [set |-> TRUE, behavior |-> behavior,
                      ignoreEscapes |-> c.ignoreEscapes, promise |-> id]
        owns == Owns(anim, behavior)
        s1 == [s EXCEPT !.animation = anim,
                        !.lastTick = IF owns THEN TRUE ELSE @,
                        !.sinceTick = IF owns THEN 0 ELSE @]
    IN  IF s1.selecting THEN Continue(s1, id, "selecting")
        ELSE IF c.waitLeft > 0 THEN Continue(s1, id, "waiting")
        ELSE IF ShortOf(scrollTop, Min(c.startTarget, calculatedTargetScrollTop(s1)))
        THEN IF ~owns THEN Continue(s1, id, "blocked")
             ELSE IF behavior.instant
             THEN Continue(instantJump(s1, c), id, "jump")
             ELSE Continue(SpringStep(s1, behavior, scrollTop, sinceLastTick), id, "spring")
        ELSE IF DurationAhead(c)
        THEN Continue([s1 EXCEPT !.loops[id].startTarget = calculatedTargetScrollTop(s1)],
                      id, "retain")
        ELSE LET s2 == [s1 EXCEPT !.animation = NoAnimation]
             IN  IF getScrollTop(s2) < calculatedTargetScrollTop(s2)
                 THEN LET r == scrollToBottom(s2,
                                   ScrollOptions(
                                       BehaviorSource(mergeAnimations(
                                           <<OptionsSource(s2.options), s2.options.resize>>)),
                                       FALSE, 0, c.ignoreEscapes, FALSE, 0),
                                   FALSE, id)
                      IN  [r EXCEPT !.ev = NextEv(s2, id, "chain", FALSE)]
                 ELSE Settle(s2, id, s2.isAtBottom, "done")


\* The post-exit animation-frame callback of next().
exitReset(s) ==
    LET s1 == IF ~s.animation.set
              THEN [s EXCEPT !.lastTick = FALSE, !.sinceTick = 0, !.velocity = 0]
              ELSE s
    IN  [s1 EXCEPT !.ev = [type |-> "exitReset"]]

\* -------------------------------------------------------------- timers
\* `resized` tells that the notification came after a resize report with a
\* nonzero difference and before the frame callback that report registered:
\* the engine does not read it.
ScrollCheckTimer(ignore, last, prev, at, cause, resized) ==
    [type |-> "scroll", ignoreScrollToTop |-> ignore, lastScrollTop |-> last,
     prev |-> prev, at |-> at, cause |-> cause, difference |-> 0,
     resized |-> resized]
ResizeResetTimer(d) ==
    [type |-> "resizeReset", ignoreScrollToTop |-> Undef, lastScrollTop |-> Undef,
     prev |-> Undef, at |-> Undef, cause |-> "none", difference |-> d,
     resized |-> FALSE]

\* The animation-frame callback set by the resize notification: it sets the
\* 1ms timer that resets resizeDifference.
resizeResetFrame(s, difference) ==
    [s EXCEPT !.timers = Append(@, ResizeResetTimer(difference)),
              !.ev = [type |-> "resizeResetFrame"]]

resizeResetTimeoutKeeps(s, difference) ==
    [s EXCEPT !.ev = [type |-> "resizeReset"]]

\* The 1ms timer of the resize report: resizeDifference is cleared when it is
\* still the difference of that report.
resizeResetTimeout(s, difference) ==
    LET s1 == IF s.resizeDifference = difference
              THEN [s EXCEPT !.resizeDifference = 0] ELSE s
    IN  [s1 EXCEPT !.ev = [type |-> "resizeReset"]]

\* ---------------------------------------------------------- stopScroll
stopScroll(s) ==
    LET s1 == setIsAtBottom(setEscapedFromLock(s, TRUE), FALSE)
    IN  [s1 EXCEPT !.loops = [i \in DOMAIN @ |-> [@[i] EXCEPT !.stopped = TRUE]],
                   !.ev = [type |-> "stopScroll"]]

\* -------------------------------------------------------- handleScroll
\* The scroll listener: `prev` is the offset of the previous notification
\* (Undef before the first) and `at` the notified offset; the deferred check
\* gets the captured ignoreScrollToTop and the corrected lastScrollTop.
\* `cause` is what moved the offset: the engine reads none of the three.
\* The frame callback of a resize report with a nonzero difference has yet
\* to run.
ResizeResetDue(s) ==
    \E i \in DOMAIN s.frame :
       s.frame[i].type = "resizeReset" /\ s.frame[i].difference # 0

uncorrectedLastScrollTop(ignore, last0, scrollTop) == last0

\* The reference offset of a notification: the last offset the engine wrote
\* when the notified offset is below it (`ignoreScrollToTop && ...`:
\* undefined and 0 are falsy), else the previous notification's offset.
correctedLastScrollTop(ignore, last0, scrollTop) ==
    IF ignore # Undef /\ ignore # 0 /\ ignore > scrollTop THEN ignore ELSE last0

\* `target !== scrollRef.current`: in element mode the listener is on the
\* element of scrollRef and the notification's target is that element; in
\* document mode the listener is on window, the target of a page scroll is
\* the document and scrollRef is attached to no element.
targetIsScrollRef(s) == s.scrollMode = "element"

\* The scroll listener returns at its target guard.
scrollNotForSurface(s0) ==
    [s0 EXCEPT !.scrollEvt = FALSE, !.evtCause = "none",
               !.ev = [type |-> "scroll", at |-> Layout(s0).domTop,
                       handled |-> FALSE]]

handleScroll(s0) ==
    IF ~targetIsScrollRef(s0) THEN scrollNotForSurface(s0) ELSE
    LET s == Layout([s0 EXCEPT !.scrollEvt = FALSE, !.evtCause = "none"])
        scrollTop == getScrollTop(s)
        ignore == s.ignoreScrollToTop
        last0 == IF s.lastScrollTop = Undef THEN scrollTop ELSE s.lastScrollTop
        last == correctedLastScrollTop(ignore, last0, scrollTop)
    IN  [s EXCEPT !.lastScrollTop = scrollTop,
                  !.ignoreScrollToTop = Undef,
                  !.timers = Append(@, ScrollCheckTimer(ignore, last, s.lastScrollTop,
                                                        scrollTop, s0.evtCause,
                                                        ResizeResetDue(s))),
                  !.ev = [type |-> "scroll", at |-> scrollTop, handled |-> TRUE]]

escapeOnScrollUpKeepsLock(s, isScrollingUp) ==
    IF isScrollingUp THEN setEscapedFromLock(s, TRUE) ELSE s

\* A scroll-up seen by the deferred check escapes the lock.
escapeOnScrollUp(s, isScrollingUp) ==
    IF isScrollingUp THEN setIsAtBottom(setEscapedFromLock(s, TRUE), FALSE) ELSE s

clearOnScrollDownNever(s, isScrollingDown) == s

\* A scroll-down seen by the deferred check clears escapedFromLock.
clearOnScrollDown(s, isScrollingDown) ==
    IF isScrollingDown THEN setEscapedFromLock(s, FALSE) ELSE s

\* The deferred check of handleScroll (setTimeout 1).
scrollCheck(s0, t) ==
    LET s == Layout(s0)
        currentScrollTop == getScrollTop(s)
        last == t.lastScrollTop
        isScrollingDown == currentScrollTop > last
        isScrollingUp == currentScrollTop < last
        Ev(outcome) == [type |-> "check", prev |-> t.prev, at |-> t.at,
                        cause |-> t.cause, last |-> last,
                        ignore |-> t.ignoreScrollToTop, cur |-> currentScrollTop,
                        resizing |-> s.resizeDifference # 0,
                        resized |-> t.resized,
                        selecting |-> s.selecting,
                        ignoreEscapes |-> s.animation.set /\ s.animation.ignoreEscapes,
                        wasEscaped |-> s.escapedFromLock, wasAtBottom |-> s.isAtBottom,
                        near |-> isNearBottom(s),
                        outcome |-> outcome]
    IN  IF s.resizeDifference # 0 \/ currentScrollTop = t.ignoreScrollToTop
        THEN [s EXCEPT !.ev = Ev("ignored")]
        ELSE IF s.selecting
        THEN [setIsAtBottom(setEscapedFromLock(s, TRUE), FALSE) EXCEPT !.ev = Ev("selecting")]
        ELSE IF s.animation.set /\ s.animation.ignoreEscapes
        THEN [setScrollTop(s, last) EXCEPT !.ev = Ev("undone")]
        ELSE LET s1 == escapeOnScrollUp(s, isScrollingUp)
                 s2 == clearOnScrollDown(s1, isScrollingDown)
                 s3 == IF ~s2.escapedFromLock /\ isNearBottom(s2)
                       THEN setIsAtBottom(s2, TRUE) ELSE s2
             IN  [s3 EXCEPT !.ev = Ev("classified")]

\* --------------------------------------------------------- handleWheel
\* Element mode: `inside` tells that the event target lies in the surface.
wheelEscapesWithoutOverflow(s, deltaY) ==
    /\ deltaY < 0
    /\ ~(s.animation.set /\ s.animation.ignoreEscapes)

\* The test of handleWheel once the event target is found in the surface.
wheelEscapes(s, deltaY) ==
    /\ deltaY < 0
    /\ ScrollHeight(s) > s.clientHeight
    /\ ~(s.animation.set /\ s.animation.ignoreEscapes)

handleWheel(s0, deltaY, inside) ==
    LET s == Layout(s0)
        \* document mode has no target to look for
        found == inside \/ s0.scrollMode = "document"
        hit == found /\ wheelEscapes(s, deltaY)
        s1 == IF hit THEN setIsAtBottom(setEscapedFromLock(s, TRUE), FALSE)
              ELSE IF found THEN s ELSE s0
    IN  [s1 EXCEPT !.ev = [type |-> "wheel", hit |-> hit, deltaY |-> deltaY,
                           inside |-> inside,
                           wasEscaped |-> s0.escapedFromLock,
                           wasAtBottom |-> s0.isAtBottom]]

\* ------------------------------------------- ResizeObserver callback
lockOnShrinkKeepsEscape(s) ==
    IF isNearBottom(s) THEN setIsAtBottom(s, TRUE) ELSE s

\* A negative resize near the bottom takes the lock back.
lockOnShrink(s) ==
    IF isNearBottom(s) THEN setIsAtBottom(setEscapedFromLock(s, FALSE), TRUE) ELSE s

resizeObserved(s0) ==
    LET sl == Layout(s0)
        height == sl.contentHeight
        difference == height - (IF sl.previousHeight = Undef THEN height
                                ELSE sl.previousHeight)
        s1 == [sl EXCEPT !.resizeDifference = difference]
        s2 == IF getScrollTop(s1) > targetScrollTop(s1)
              THEN setScrollTop(s1, targetScrollTop(s1)) ELSE s1
        \* `previousHeight ? resize : initial`: undefined and 0 are falsy
        anim == mergeAnimations(<<OptionsSource(s2.options),
                                  IF s2.previousHeight # Undef /\ s2.previousHeight # 0
                                  THEN s2.options.resize ELSE s2.options.initial>>)
        o == ScrollOptions(BehaviorSource(anim), TRUE, 0, FALSE, TRUE,
                           IF anim.instant THEN 0 ELSE RETAIN_ANIMATION_DURATION_MS)
        s3 == IF difference >= 0
              THEN scrollToBottom(s2, o, TRUE, 0)
              ELSE lockOnShrink(s2)
    IN  [s3 EXCEPT !.previousHeight = height,
                   !.rafQueue = Append(@, ResizeResetCallback(difference)),
                   !.ev = [type |-> "resize", difference |-> difference,
                           first |-> sl.previousHeight = Undef,
                           call |-> IF difference >= 0 THEN <<o>> ELSE <<>>,
                           wasEscaped |-> s0.escapedFromLock,
                           wasAtBottom |-> s0.isAtBottom,
                           loopsBefore |-> DOMAIN s0.loops,
                           clamped |-> getScrollTop(s2) # getScrollTop(sl)]]


\* ------------------------------------------------------ animationCache
\* mergeAnimations with its cache and the identity of the objects it returns.
\* The engine above compares behaviors by value; here a result is a
\* reference into `objects`.

\* JSON.stringify of the result object: its three numbers in the order of the
\* properties of DEFAULT_SPRING_ANIMATION.
JSONstringify(result) ==
    <<ToString(result.damping), ToString(result.stiffness), ToString(result.mass)>>

\* The `result` object after the loop: an 'instant' source leaves it as it is.
MergedResult(animations) ==
    MergeFrom(SelectSeq(animations, LAMBDA a : a.kind # "instant"),
              DEFAULT_SPRING_ANIMATION, FALSE)

CacheHasNever(cache, key) == FALSE

\* animationCache.has(key)
CacheHas(cache, key) == key \in DOMAIN cache

Triple(o) == [damping |-> o.damping, stiffness |-> o.stiffness, mass |-> o.mass]

NoMerges ==
    /\ animationCache = <<>>
    /\ objects = <<>>
    /\ results = {}
    /\ merged = [type |-> "init", calls |-> 0, springs |-> 0, sources |-> <<>>,
                 instant |-> FALSE, ref |-> 0]

\* One call of mergeAnimations(...animations).  The fresh `result` object is
\* frozen and kept only when its key is not in the cache; the call returns
\* 'instant' (ref 0) or the cached object of the key.
MergeCall(animations) ==
    /\ merged.calls < MaxMergeCalls
    /\ LET result == MergedResult(animations)
           instant == mergeAnimations(animations).instant
           key == JSONstringify(result)
           fresh == Len(objects) + 1
           miss == ~CacheHas(animationCache, key)
           cache == IF miss THEN (key :> fresh) @@ animationCache
                    ELSE animationCache
           heap == IF miss THEN Append(objects, Triple(result) @@ [frozen |-> TRUE])
                   ELSE objects
           ref == IF instant THEN 0 ELSE cache[key]
       IN  /\ animationCache' = cache
           /\ objects' = heap
           /\ results' = IF instant THEN results
                         ELSE results \cup {Triple(heap[ref]) @@ [ref |-> ref]}
           /\ merged' = [type |-> "merge", calls |-> merged.calls + 1,
                         springs |-> merged.springs + (IF instant THEN 0 ELSE 1),
                         sources |-> animations, instant |-> instant, ref |-> ref]
    /\ UNCHANGED <<vars, targetVars>>

\* A holder of a returned object assigns to one of its properties: an
\* assignment to a property of a frozen object changes nothing.
CallerAssigns(ref, field, value) ==
    /\ ref \in {r.ref : r \in results}
    /\ merged.type = "merge"
    /\ objects' = IF objects[ref].frozen THEN objects
                  ELSE [objects EXCEPT ![ref] = [@ EXCEPT ![field] = value]]
    /\ merged' = [merged EXCEPT !.type = "assign"]
    /\ UNCHANGED <<animationCache, results>>
    /\ UNCHANGED <<vars, targetVars>>

\* ------------------------------------ a configured options.targetScrollTop
\* The getter of calculatedTargetScrollTop when a custom target resolver is
\* configured.  The engine above runs without one; here the getter is read
\* at any time, the resolver returning `value`.
NoCalculation == [set |-> FALSE, targetScrollTop |-> 0, calculatedScrollTop |-> 0]

CacheServesAlways(lc, target) == lc.set

\* lastCalculation?.targetScrollTop === targetScrollTop
CacheServes(lc, target) == lc.set /\ lc.targetScrollTop = target

resolvedTargetScrollTop(s, lc, value) ==
    LET target == targetScrollTop(s)
        calculatedScrollTop == Max(Min(value, target), 0)
    IN  IF CacheServes(lc, target)
        THEN [value |-> lc.calculatedScrollTop, lastCalculation |-> lc]
        ELSE [value |-> calculatedScrollTop,
              lastCalculation |-> [set |-> TRUE, targetScrollTop |-> target,
                                   calculatedScrollTop |-> calculatedScrollTop]]

NoTargetRead ==
    /\ lastCalculation = NoCalculation
    /\ resolved = [type |-> "init", value |-> 0, target |-> 0, cached |-> NoCalculation]

ReadTarget(value) ==
    /\ phase = "idle"
    /\ LET r == resolvedTargetScrollTop(Layout(St), lastCalculation, value)
       IN  /\ lastCalculation' = r.lastCalculation
           /\ resolved' = [type |-> "read", value |-> r.value,
                           target |-> targetScrollTop(St),
                           cached |-> lastCalculation]
    /\ UNCHANGED <<vars, mergeVars>>

\* The animation-frame callback registered by a computing read.
ClearCalculation ==
    /\ phase = "idle"
    /\ lastCalculation.set
    /\ lastCalculation' = NoCalculation
    /\ resolved' = [resolved EXCEPT !.type = "cleared"]
    /\ UNCHANGED <<vars, mergeVars>>

\* ---------------------------------------------------------------- Init
\* The engine right after useStickToBottom has attached to a scroll surface
\* and a content surface: nothing observed yet, no notification pending.  The
\* surface is at its top or at its very end.
\* The state record and the browser's queues when the hook is created.
\* useState(options.initial !== false); in document mode the effect that
\* adds the window listeners also takes the lock when the page is near its
\* bottom.
mountedIsAtBottom ==
    \/ options.initial.kind # "false"
    \/ /\ scrollMode = "document"
       /\ isNearBottom([contentHeight |-> contentHeight,
                        clientHeight |-> clientHeight, domTop |-> domTop])

Created ==
    /\ scrollEvt = FALSE
    /\ selecting = FALSE
    /\ lastScrollTop = Undef
    /\ ignoreScrollToTop = Undef
    /\ resizeDifference = 0
    /\ animation = NoAnimation
    /\ lastTick = FALSE
    /\ sinceTick = 0
    /\ velocity = 0
    /\ accumulated = 0
    /\ escapedFromLock = FALSE
    /\ isAtBottom = mountedIsAtBottom
    /\ previousHeight = Undef
    /\ loops = <<>>
    /\ rafQueue = <<>>
    /\ frame = <<>>
    /\ timers = <<>>
    /\ phase = "idle"
    /\ evtCause = "none"
    /\ integrated = 0
    /\ nextId = 1
    /\ ev = [type |-> "init"]
    /\ NoMerges
    /\ NoTargetRead

Attached ==
    /\ options \in Configs
    /\ scrollMode = "element"
    /\ clientHeight = ClientHeight
    /\ contentHeight \in Heights
    /\ domTop \in {0, Max(contentHeight, ClientHeight) - ClientHeight}
    /\ Created

Init == Attached /\ budget = MaxEnv

\* ------------------------------------------------- environment actions
Idle == phase = "idle"
Spend(s) == [s EXCEPT !.budget = @ - 1]

\* The content surface gets a new height (content appended or removed).
ContentResize(h) ==
    /\ Idle /\ budget > 0
    /\ h # contentHeight
    /\ Commit(Spend([St EXCEPT !.contentHeight = h, !.ev = [type |-> "content"]]))

\* Some script reads the geometry before the next frame, which lays out.
ForceLayout ==
    /\ Idle
    /\ domTop > MaxScrollTop(St)
    /\ Commit([Layout(St) EXCEPT !.ev = [type |-> "layout"]])

\* The user scrolls the surface: to an end, or by one pixel.
UserScroll(top) ==
    LET s == Layout(St)
    IN  /\ Idle /\ budget > 0
        /\ top \in {0, getScrollTop(s) - 1, getScrollTop(s) + 1, MaxScrollTop(s)}
        /\ top >= 0 /\ top <= MaxScrollTop(s)
        /\ top # getScrollTop(s)
        /\ Commit(Spend([s EXCEPT !.domTop = top, !.scrollEvt = TRUE,
                                  !.evtCause = Caused(@, "user"),
                                  !.ev = [type |-> "userScroll"]]))

Wheel(deltaY, inside) ==
    /\ Idle /\ budget > 0
    /\ Commit(Spend(handleWheel(St, deltaY, inside)))

\* mousedown with a selection on the surface; mouseup or click.
Select(b) ==
    /\ Idle /\ budget > 0
    /\ selecting # b
    /\ Commit(Spend([St EXCEPT !.selecting = b, !.ev = [type |-> "select"]]))

StopScroll ==
    /\ Idle /\ budget > 0
    /\ Commit(Spend(stopScroll(St)))

\* The scrollToBottom calls of the application.
CallOptions ==
    { ScrollOptions(SrcUndefined, FALSE, 0, FALSE, FALSE, 0),
      ScrollOptions(SrcInstant, FALSE, 0, FALSE, FALSE, 0),
      ScrollOptions(SrcUndefined, TRUE, 0, FALSE, FALSE, RETAIN_ANIMATION_DURATION_MS),
      ScrollOptions(SrcInstant, FALSE, 0, TRUE, FALSE, 0),
      ScrollOptions(SrcObject(Undef, Undef, 50), FALSE, 0, FALSE, TRUE, 0) }

ScrollToBottom(o) ==
    /\ Idle /\ budget > 0
    /\ Commit(Spend(scrollToBottom(Layout(St), o, TRUE, 0)))

\* The duration Promise of a call settles: its finally handler assigns
\* durationElapsed = Date.now().
durationSettled(s, id) ==
    [s EXCEPT !.loops[id].durationPending = FALSE,
              !.loops[id].durLeft = 0,
              !.ev = [type |-> "durationSettled", id |-> id]]

DurationSettles ==
    /\ Idle
    /\ \E id \in DOMAIN loops :
          /\ loops[id].durationPending
          /\ Commit(durationSettled(St, id))

\* ------------------------------------------------------ browser actions
ROPending(s) == s.previousHeight = Undef \/ s.contentHeight # s.previousHeight

\* Time passes (dt ms) and the next frame starts.  A 1ms timer may run late,
\* after a later frame, but no more than MaxTimers timers are ever overdue.
Elapse(s, dt) ==
    [s EXCEPT !.sinceTick = IF s.lastTick THEN @ + dt ELSE 0,
              !.loops = [i \in DOMAIN @ |->
                            [@[i] EXCEPT !.waitLeft = Max(0, @ - dt),
                                         !.durLeft = Max(0, @ - dt),
                                         !.need = Max(0, @ - dt)]]]

BeginFrame(dt) ==
    /\ Idle
    /\ Len(timers) <= MaxTimers
    /\ \/ rafQueue # <<>>
       \/ scrollEvt
       \/ domTop > MaxScrollTop(St)
       \/ ROPending(St)
    /\ Commit([Elapse(St, dt) EXCEPT !.frame = rafQueue, !.rafQueue = <<>>,
                                     !.integrated = 0,
                                     !.phase = IF scrollEvt THEN "scroll" ELSE "raf",
                                     !.ev = [type |-> "frame"]])

ScrollNotification ==
    /\ phase = "scroll"
    /\ Commit([handleScroll(St) EXCEPT !.phase = "raf"])

Pop(s) == [s EXCEPT !.frame = Tail(@)]

\* What the callback of next() did to the offset and to the spring's state:
\* `s` is the state it was called in, `r` the state it left.
Effect(s, r) ==
    [r EXCEPT !.ev = @ @@ [wasAtBottom |-> s.isAtBottom,
                           animationBefore |-> s.animation,
                           wrote |-> r.domTop \notin {s.domTop, Layout(s).domTop},
                           sprung |-> \/ r.velocity # s.velocity
                                      \/ r.accumulated # s.accumulated]]

RunNext ==
    /\ phase = "raf" /\ frame # <<>>
    /\ Head(frame).type = "next"
    /\ Commit(Effect(St, next(Pop(St), Head(frame).id)))

RunExitReset ==
    /\ phase = "raf" /\ frame # <<>>
    /\ Head(frame).type = "exitReset"
    /\ Commit(exitReset(Pop(St)))

RunResizeResetFrame ==
    /\ phase = "raf" /\ frame # <<>>
    /\ Head(frame).type = "resizeReset"
    /\ Commit(resizeResetFrame(Pop(St), Head(frame).difference))

\* After the callbacks the frame lays out and the ResizeObserver reports.
ResizeNotification ==
    /\ phase = "raf" /\ frame = <<>>
    /\ ROPending(St)
    /\ Commit([resizeObserved(St) EXCEPT !.phase = "idle"])

EndFrame ==
    /\ phase = "raf" /\ frame = <<>>
    /\ ~ROPending(St)
    /\ Commit([Layout(St) EXCEPT !.phase = "idle", !.ev = [type |-> "endFrame"]])

FireScrollCheck ==
    /\ Idle /\ timers # <<>>
    /\ Head(timers).type = "scroll"
    /\ Commit(scrollCheck([St EXCEPT !.timers = Tail(@)], Head(timers)))

FireResizeReset ==
    /\ Idle /\ timers # <<>>
    /\ Head(timers).type = "resizeReset"
    /\ Commit(resizeResetTimeout([St EXCEPT !.timers = Tail(@)], Head(timers).difference))

\* The steps of a frame, in the order the browser runs them.
FrameStep ==
    \/ \E k \in 1..MaxDt : BeginFrame(k * FrameMs)
    \/ ScrollNotification
    \/ RunNext
    \/ RunExitReset
    \/ RunResizeResetFrame
    \/ ResizeNotification
    \/ EndFrame

TimerStep ==
    \/ FireScrollCheck
    \/ FireResizeReset

Engine == FrameStep \/ TimerStep

Browser == Engine \/ ForceLayout

Next ==
    \/ Browser
    \/ \E h \in Heights : ContentResize(h)
    \/ \E top \in 0..(BigOverflow + SmallOverflow) : UserScroll(top)
    \/ \E deltaY \in {0 - 1, 1}, inside \in BOOLEAN : Wheel(deltaY, inside)
    \/ \E b \in BOOLEAN : Select(b)
    \/ StopScroll
    \/ \E o \in CallOptions : ScrollToBottom(o)

Spec == Init /\ [][Next]_vars

\* The application calls scrollToBottom and stopScroll; the content and the
\* user are still.
NextCalls ==
    \/ Engine
    \/ StopScroll
    \/ \E o \in CallOptions : ScrollToBottom(o)

SpecCalls == Init /\ [][NextCalls]_vars

\* Only the content changes height.
NextResize ==
    \/ Browser
    \/ \E h \in Heights : ContentResize(h)

SpecResize == Init /\ [][NextResize]_vars

\* No user input: the application calls scrollToBottom and the content
\* changes height within the scrollable range, so that every scroll
\* notification comes from an offset write of the engine.
ContentResizeInRange(h) ==
    /\ domTop <= Max(h, clientHeight) - clientHeight
    /\ ContentResize(h)

NextProgram ==
    \/ Engine
    \/ \E h \in Heights : ContentResizeInRange(h)
    \/ \E o \in CallOptions : ScrollToBottom(o)

InitProgram == Attached /\ budget = MaxProgramEnv

SpecProgram == InitProgram /\ [][NextProgram]_vars

\* The content only grows, the lock is held at the start, and the browser
\* keeps running frames and fires every timer.
ContentGrow(h) ==
    /\ h > contentHeight
    /\ ContentResize(h)

NextGrowth ==
    \/ Engine
    \/ \E h \in Heights : ContentGrow(h)

InitGrowth == Init /\ isAtBottom

\* ENABLED <<FrameStep>>_vars and ENABLED <<TimerStep>>_vars, from the guards
\* of their disjuncts; `ev` tells which step a transition was.
FrameEnabled ==
    \/ phase # "idle"
    \/ /\ Len(timers) <= MaxTimers
       /\ \/ rafQueue # <<>>
          \/ scrollEvt
          \/ domTop > MaxScrollTop(St)
          \/ ROPending(St)

TimerEnabled == Idle /\ timers # <<>>

FrameTaken ==
    ev'.type \in {"frame", "scroll", "next", "exitReset", "resizeResetFrame",
                  "resize", "endFrame"}

TimerTaken == ev'.type \in {"check", "resizeReset"}

\* WF_vars(FrameStep): a frame that can start or continue does so.
FrameFairness == []<>(~FrameEnabled) \/ []<><<FrameEnabled /\ FrameTaken>>_vars

\* SF_vars(TimerStep): timers cannot fire within a frame, but a timer that
\* is set fires at last.
TimerFairness == <>[](~TimerEnabled) \/ []<><<TimerEnabled /\ TimerTaken>>_vars

SpecGrowth ==
    /\ InitGrowth
    /\ [][NextGrowth]_vars
    /\ FrameFairness
    /\ TimerFairness

\* The application calls scrollToBottom with a Promise as duration, which
\* settles at some later time, while the content changes height.
DurationCallOptions ==
    { UntilSettled(ScrollOptions(SrcUndefined, FALSE, 0, FALSE, FALSE, 0)),
      UntilSettled(ScrollOptions(SrcInstant, FALSE, 0, FALSE, FALSE, 0)) }

NextDuration ==
    \/ Engine
    \/ \E h \in Heights : ContentResize(h)
    \/ \E o \in DurationCallOptions : ScrollToBottom(o)
    \/ DurationSettles

SpecDuration == Init /\ [][NextDuration]_vars

\* mergeAnimations alone: the sources of each call are drawn from
\* MergeSources, in lists of up to MaxSources.
MergeSources ==
    { SrcInstant, SrcUndefined, SrcFalse,
      SrcObject(Undef, Undef, Undef),
      SrcObject(50, Undef, Undef),
      SrcObject(Undef, 8, Undef),
      SrcObject(Undef, Undef, 200) }

SourceLists == UNION {[1..n -> MergeSources] : n \in 0..MaxSources}

InitMerge ==
    /\ Attached
    /\ options = DefaultOptions /\ contentHeight = 0
    /\ budget = 0

NextMerge ==
    \/ \E animations \in SourceLists : MergeCall(animations)
    \/ \E ref \in 1..MaxMergeCalls, field \in {"damping", "stiffness", "mass"} :
          CallerAssigns(ref, field, 0)

SpecMerge == InitMerge /\ [][NextMerge]_<<vars, mergeVars>>

\* The getter with a custom resolver, read while the content changes height.
ResolverValues ==
    {0 - 1, 0, 1} \cup ((BigOverflow - 1)..(BigOverflow + SmallOverflow))

NextTarget ==
    \/ \E h \in Heights : ContentResize(h)
    \/ \E value \in ResolverValues : ReadTarget(value)
    \/ ClearCalculation

SpecTarget == Init /\ [][NextTarget]_<<vars, targetVars>>

\* The scenarios of a 500px viewport: the content as tall as the viewport,
\* or grown so that targetScrollTop is 1000.
ScenarioHeights == {ScenarioContent, ScenarioGrown}

InitScenario ==
    /\ options = DefaultOptions
    /\ scrollMode = "element"
    /\ clientHeight = ScenarioViewport
    /\ contentHeight = ScenarioContent
    /\ domTop = 0
    /\ Created
    /\ budget = MaxEnv

NextScenario ==
    \/ Engine
    \/ \E h \in ScenarioHeights : ContentResize(h)
    \/ \E o \in CallOptions : ScrollToBottom(o)

SpecScenario == InitScenario /\ [][NextScenario]_vars

\* The content keeps its height: the offset moves by the engine's writes and
\* by the user's scrolling only.
NextUser ==
    \/ Engine
    \/ \E top \in 0..(BigOverflow + SmallOverflow) : UserScroll(top)
    \/ \E o \in CallOptions : ScrollToBottom(o)

SpecUser == Init /\ [][NextUser]_vars

\* The application calls scrollToBottom, the content changes height and the
\* user selects text, each finitely often, while the browser keeps running
\* frames and fires every timer.
NextLive ==
    \/ Engine
    \/ \E h \in Heights : ContentResize(h)
    \/ \E o \in CallOptions : ScrollToBottom(o)
    \/ \E b \in BOOLEAN : Select(b)

\* Every variable but `ev`.
others == <<options, contentHeight, domTop, scrollEvt, selecting, lastScrollTop,
            ignoreScrollToTop, resizeDifference, animation, lastTick, sinceTick,
            velocity, accumulated, escapedFromLock, isAtBottom, previousHeight,
            loops, rafQueue, frame, timers, phase, nextId, budget, evtCause,
            integrated, clientHeight, scrollMode, mergeVars, targetVars>>

\* A step of a frame, and the firing of a timer, told as in FrameFairness
\* by the guards and by the record of the step in `ev`.  The disjuncts that
\* leave `others` unchanged are instances of FrameTaken and TimerTaken: they
\* give ENABLED a successor without running a handler.
FrameMove ==
    /\ FrameEnabled
    /\ \/ ev' = [type |-> "endFrame"] /\ UNCHANGED others
       \/ ev' = [type |-> "frame"] /\ UNCHANGED others
       \/ FrameTaken

TimerMove ==
    /\ TimerEnabled
    /\ \/ ev' = [type |-> "resizeReset"] /\ UNCHANGED others
       \/ ev' = [type |-> "check"] /\ UNCHANGED others
       \/ TimerTaken

SpecLive ==
    /\ Init
    /\ [][NextLive]_vars
    /\ WF_vars(FrameMove)
    /\ SF_vars(TimerMove)

\* The hook in either scroll mode, with the user scrolling and wheeling, the
\* application calling scrollToBottom and the content changing height.
InitModes ==
    /\ options \in Configs
    /\ scrollMode \in {"element", "document"}
    /\ clientHeight = ClientHeight
    /\ contentHeight \in Heights
    /\ domTop \in {0, Max(contentHeight, ClientHeight) - ClientHeight}
    /\ Created
    /\ budget = MaxEnv

NextModes ==
    \/ Engine
    \/ \E h \in Heights : ContentResize(h)
    \/ \E top \in 0..(BigOverflow + SmallOverflow) : UserScroll(top)
    \/ \E deltaY \in {0 - 1, 1} : Wheel(deltaY, TRUE)
    \/ \E o \in CallOptions : ScrollToBottom(o)

SpecModes == InitModes /\ [][NextModes]_vars

\* ================================================================ claims

\* No animation loop is pending, the lock is held and the offset is not below
\* targetScrollTop.
Converged ==
    /\ loops = <<>>
    /\ isAtBottom
    /\ domTop >= targetScrollTop(St)

\* C1: with the lock held at the start, no user input and finitely many
\* growths of the content, the engine comes to rest: from some state on no
\* animation loop is pending, isAtBottom is true and the offset is not below
\* targetScrollTop.
C1_GrowthConverges == <>[]Converged

C1_Witness ==
    /\ Converged
    /\ budget = 0
    /\ contentHeight = ClientHeight + BigOverflow + SmallOverflow
    /\ ev.type = "next" /\ ev.act = "done" /\ ev.value

\* The deferred check of a scroll notification at an offset below the
\* previous notification's has just run, with no ignoreEscapes animation.
C2_LowerOffset ==
    /\ ev.type = "check"
    /\ ev.prev # Undef /\ ev.at < ev.prev
    /\ ~ev.ignoreEscapes

\* C2 (as stated): a scroll notification at an offset below the previous
\* notification's, with no ignoreEscapes animation active, has a deferred
\* check that ends with escapedFromLock true and isAtBottom false.
C2_EveryLowerOffsetEscapes ==
    C2_LowerOffset => escapedFromLock /\ ~isAtBottom

\* C2 (amended): such a check escapes the lock when it runs with
\* resizeDifference = 0 and reads an offset that is not the one the engine
\* wrote last before the notification and is below the reference offset of the
\* notification.
C2_UserScrollUpEscapes ==
    /\ C2_LowerOffset
    /\ ~ev.resizing
    /\ ev.cur # ev.ignore
    /\ ev.cur < ev.last
    => escapedFromLock /\ ~isAtBottom

C2_Witness ==
    /\ C2_LowerOffset
    /\ ~ev.resizing /\ ev.cur # ev.ignore /\ ev.cur < ev.last
    /\ ev.wasAtBottom /\ ~ev.wasEscaped
    /\ escapedFromLock /\ ~isAtBottom

\* C3: when every scroll notification comes from an offset write of the
\* engine, escapedFromLock never becomes true and isAtBottom never goes from
\* true to false.
C3_EngineWritesNeverEscape ==
    [][~escapedFromLock' /\ (isAtBottom => isAtBottom')]_vars

\* C4: the deferred check of a scroll notification caused by a content
\* resize neither sets escapedFromLock nor clears isAtBottom.
C4_ResizeScrollIgnored ==
    ev.type = "check" /\ ev.cause = "resize"
    => (escapedFromLock => ev.wasEscaped) /\ (ev.wasAtBottom => isAtBottom)

\* C5: a promise resolves true only with isAtBottom true, the offset not
\* below calculatedTargetScrollTop and the wait plus duration of every call
\* it was returned to elapsed; it resolves false only with isAtBottom false.
C5_PromiseValue ==
    ev.type = "next" /\ ev.act \in {"done", "abandon"}
    => IF ev.value
       THEN /\ isAtBottom
            /\ domTop >= calculatedTargetScrollTop(St)
            /\ ev.need = 0
       ELSE ~isAtBottom

\* C6: after stopScroll the next frame callback of a loop in flight resolves
\* its promise false.
C6_StopResolvesFalse ==
    ev.type = "next" /\ ev.stopped
    => ev.act = "abandon" /\ ~ev.value

\* C7: a call whose resolved spring parameters are those of a loop in flight
\* starts no second loop, and a frame integrates the spring and writes the
\* offset at most once.
C7_SharedAnimation ==
    /\ (ev.type = "call" /\ ev.sameInFlight /\ ~ev.behavior.instant) => ~ev.started
    /\ integrated <= 1

\* C8: a loop whose animation was cancelled by a call with another behavior
\* writes the offset no more and ends at its next frame.
C8_SupersededLoopEnds ==
    ev.type = "next" /\ ev.superseded
    => /\ ev.act \notin {"spring", "jump"}
       /\ ev.id \notin DOMAIN loops

\* C9: isAtBottom implies not escapedFromLock.
C9_AtBottomNotEscaped == isAtBottom => ~escapedFromLock

\* C10: a resize notification with a negative difference takes the lock back
\* (escapedFromLock false, isAtBottom true) when after the overscroll clamp
\* scrollDifference <= 70, and else leaves both flags; it starts no animation.
C10_NegativeResize ==
    ev.type = "resize" /\ ev.difference < 0
    => /\ DOMAIN loops = ev.loopsBefore
       /\ IF targetScrollTop(St) - domTop <= STICK_TO_BOTTOM_OFFSET_PX
          THEN ~escapedFromLock /\ isAtBottom
          ELSE escapedFromLock = ev.wasEscaped /\ isAtBottom = ev.wasAtBottom

C10_Witness ==
    /\ ev.type = "resize" /\ ev.difference < 0
    /\ ev.wasEscaped /\ ~ev.wasAtBottom
    /\ ~escapedFromLock /\ isAtBottom

\* C11: a scrollToBottom call with no wait and no duration, made while the
\* offset equals calculatedTargetScrollTop and not followed by stopScroll,
\* resolves true at the first frame of its loop, and that frame neither
\* writes the offset nor changes velocity or accumulated.
C11_AtTargetResolvesTrue ==
    ev.type = "next" /\ ev.atTarget /\ ~ev.stopped
    => /\ ev.act = "done" /\ ev.value
       /\ ~ev.wrote /\ ~ev.sprung

C11_Witness ==
    /\ ev.type = "next" /\ ev.atTarget /\ ~ev.stopped
    /\ ev.act = "done" /\ ev.value
    /\ ~ev.wrote /\ ~ev.sprung
    /\ domTop > 0 /\ domTop = calculatedTargetScrollTop(St)

\* A loop started by a call with ignoreEscapes: true is in flight, its promise
\* not yet resolved.
IgnoreEscapesPending == \E i \in DOMAIN loops : loops[i].ignoreEscapes

\* An upward wheel event on the surface, or the deferred check of a scroll
\* notification at an offset below the previous notification's, has just run.
UpwardInput ==
    \/ ev.type = "wheel" /\ ev.inside /\ ev.deltaY < 0
    \/ ev.type = "check" /\ ev.prev # Undef /\ ev.at < ev.prev

\* C12: while the promise of a scrollToBottom({ignoreEscapes: true}) call is
\* unresolved, an upward wheel event or an upward scroll notification neither
\* sets escapedFromLock nor clears isAtBottom.
C12_IgnoreEscapesHolds ==
    IgnoreEscapesPending /\ UpwardInput
    => (escapedFromLock => ev.wasEscaped) /\ (ev.wasAtBottom => isAtBottom)

\* C13: a resize notification of a growth (difference >= 0) that finds
\* isAtBottom false leaves it false, and a frame of a loop started by such a
\* notification that finds isAtBottom false writes no offset and resolves the
\* promise false.
C13_GrowthWhileEscaped ==
    /\ (ev.type = "resize" /\ ev.difference >= 0 /\ ~ev.wasAtBottom) => ~isAtBottom
    /\ (ev.type = "next" /\ ev.heldOff /\ ~ev.wasAtBottom)
       => ev.act = "abandon" /\ ~ev.value /\ ~ev.wrote /\ ev.id \notin DOMAIN loops

C13_Witness ==
    /\ ev.type = "next" /\ ev.heldOff /\ ~ev.wasAtBottom
    /\ ev.act = "abandon" /\ ~ev.wrote
    /\ escapedFromLock
    /\ resizeDifference > 0
    /\ domTop < calculatedTargetScrollTop(St)

\* C14: while the duration Promise of a call is pending and isAtBottom is
\* true, a frame of its loop does not resolve the returned promise: the loop
\* stays in flight.
C14_PersistsUntilSettled ==
    ev.type = "next" /\ ev.durationPending /\ ev.wasAtBottom /\ isAtBottom
    => ev.act # "done" /\ ev.id \in DOMAIN loops

\* C15: a call with wait: true made while an animation of another behavior
\* holds state.animation leaves state.animation as it is; a frame of a loop
\* started by such a call that finds state.animation held by another behavior
\* writes no offset; a call with wait not true leaves state.animation
\* undefined.
C15_WaitKeepsAnimation ==
    /\ (/\ ev.type = "call" /\ ev.wait
        /\ ev.animationBefore.set /\ ev.animationBefore.behavior # ev.behavior)
       => animation = ev.animationBefore
    /\ (/\ ev.type = "next" /\ ev.waited
        /\ ev.animationBefore.set /\ ev.animationBefore.behavior # ev.behavior)
       => ~ev.wrote /\ ~ev.sprung
    /\ (ev.type = "call" /\ ~ev.wait) => ~animation.set

C15_Witness ==
    /\ ev.type = "next" /\ ev.waited
    /\ ev.animationBefore.set /\ ev.animationBefore.behavior # ev.behavior
    /\ ev.act = "blocked"
    /\ animation = ev.animationBefore
    /\ domTop < calculatedTargetScrollTop(St)

\* C16: two spring results of mergeAnimations with equal damping, stiffness
\* and mass are the same object; every returned object is frozen and keeps
\* the fields it was returned with.
C16_EqualTriplesShareObject ==
    /\ \A x, y \in results : Triple(x) = Triple(y) => x.ref = y.ref
    /\ \A x \in results :
          /\ objects[x.ref].frozen
          /\ Triple(objects[x.ref]) = Triple(x)

C16_Witness ==
    /\ merged.type = "assign"
    /\ merged.springs = 2
    /\ merged.sources # <<>>
    /\ Cardinality(results) = 1
    /\ \A x \in results : x.ref = merged.ref /\ Triple(objects[x.ref]) = Triple(x)

\* The reference merge of C17, left to right from the defaults: an object
\* overrides the fields it defines and un-marks instant; 'instant' puts the
\* overrides back to the defaults and marks instant.
RECURSIVE ReferenceMerge(_, _, _)
ReferenceMerge(sources, triple, marked) ==
    IF sources = <<>> THEN (IF marked THEN Instant ELSE triple)
    ELSE LET source == Head(sources)
         IN  IF source.kind = "instant"
             THEN ReferenceMerge(Tail(sources), DEFAULT_SPRING_ANIMATION, TRUE)
             ELSE IF source.kind = "object"
             THEN ReferenceMerge(Tail(sources),
                                 Spring(Coalesce(source.damping, triple.damping),
                                        Coalesce(source.stiffness, triple.stiffness),
                                        Coalesce(source.mass, triple.mass)),
                                 FALSE)
             ELSE ReferenceMerge(Tail(sources), triple, marked)

\* C17: mergeAnimations returns what the reference merge of its sources
\* gives: 'instant', or the object holding the reference triple.
C17_ReferenceMerge ==
    merged.type = "merge"
    => LET reference == ReferenceMerge(merged.sources, DEFAULT_SPRING_ANIMATION, FALSE)
       IN  IF merged.instant THEN reference.instant
           ELSE /\ ~reference.instant
                /\ Triple(objects[merged.ref]) = Triple(reference)

\* C18: whatever the resolver returns, a read of calculatedTargetScrollTop
\* gives a value from 0 to targetScrollTop, in every state and also when a
\* value cached for an earlier geometry is present.
C18_CalculatedWithinTarget ==
    /\ \A value \in ResolverValues :
          LET r == resolvedTargetScrollTop(St, lastCalculation, value)
          IN  0 <= r.value /\ r.value <= targetScrollTop(St)
    /\ resolved.type = "read"
       => 0 <= resolved.value /\ resolved.value <= resolved.target

C18_Witness ==
    /\ resolved.type = "read"
    /\ resolved.cached.set
    /\ resolved.cached.calculatedScrollTop > resolved.target
    /\ resolved.target > 0
    /\ resolved.value = resolved.target

\* A frame of the loop of a scrollToBottom({animation: 'instant'}) call has
\* run with the content and the viewport both 500px tall, the call being all
\* that has happened to the engine from outside.
C19_InstantFrame ==
    /\ ev.type = "next" /\ ev.behavior.instant
    /\ clientHeight = ScenarioViewport
    /\ contentHeight = ScenarioContent
    /\ budget = MaxEnv - 1

\* C19 (as stated): in that scenario the offset becomes 499 and the promise
\* resolves true.
C19_InstantReaches499 ==
    C19_InstantFrame => domTop = ScenarioContent - 1 /\ ev.act = "done" /\ ev.value

\* C19 (amended): in that scenario targetScrollTop is 0, the offset stays 0
\* with no offset write and the promise resolves true at the loop's first
\* frame.
C19_InstantStaysAtTop ==
    C19_InstantFrame
    => /\ targetScrollTop(St) = 0
       /\ domTop = 0 /\ ~ev.wrote
       /\ ev.act = "done" /\ ev.value

C19_Witness ==
    /\ C19_InstantFrame
    /\ domTop = 0 /\ ev.act = "done" /\ ev.value
    /\ previousHeight = ScenarioContent

\* C20: with the default spring, after one resize that moves the target from
\* 0 to 1000 with the lock held, a spring frame of the animator never leaves
\* the offset above calculatedTargetScrollTop, whatever the frame time deltas.
C20_SpringNeverOvershoots ==
    /\ clientHeight = ScenarioViewport
    /\ contentHeight = ScenarioGrown /\ budget = MaxEnv - 1
    /\ ev.type = "next" /\ ev.act = "spring"
    => scrollDifference(St) >= 0

\* C21: while an animation flagged ignoreEscapes is active, a deferred check
\* that is not ignored never sets escapedFromLock or clears isAtBottom, text
\* selection or not, and it writes the offset back to lastScrollTop.
C21_IgnoreEscapesFirst ==
    /\ ev.type = "check" /\ ev.outcome # "ignored"
    /\ ev.ignoreEscapes
    => /\ escapedFromLock => ev.wasEscaped
       /\ ev.wasAtBottom => isAtBottom
       /\ domTop = Max(0, Min(ev.last, MaxScrollTop(St)))

\* The fields of the engine's state and what it has scheduled.
EngineState ==
    <<lastScrollTop, ignoreScrollToTop, resizeDifference, animation, lastTick,
      velocity, accumulated, escapedFromLock, isAtBottom, previousHeight,
      loops, rafQueue, timers>>

WheelShouldEscape ==
    /\ ev.deltaY < 0 /\ ev.inside
    /\ contentHeight > clientHeight
    /\ ~(animation.set /\ animation.ignoreEscapes)

\* C22: a wheel event sets escapedFromLock and clears isAtBottom in the same
\* step exactly when deltaY < 0, the surface overflows, no ignoreEscapes
\* animation is active and the target lies in the surface; any other wheel
\* event leaves the whole engine state as it was.
C22_WheelEscape ==
    [][ev'.type = "wheel" =>
          IF WheelShouldEscape'
          THEN escapedFromLock' /\ ~isAtBottom'
          ELSE EngineState' = EngineState]_vars

C22_Witness ==
    /\ ev.type = "wheel" /\ WheelShouldEscape
    /\ ev.wasAtBottom /\ ~ev.wasEscaped
    /\ escapedFromLock /\ ~isAtBottom
    /\ scrollEvt = FALSE /\ timers = <<>>

\* The deferred check of a scroll notification has just classified it: no
\* resize in progress, no text selection, no ignoreEscapes animation.
C23_Classified ==
    /\ ev.type = "check" /\ ev.outcome = "classified"
    /\ ~ev.resizing /\ ~ev.selecting /\ ~ev.ignoreEscapes

C23_ScrollDownOutcome ==
    /\ ~escapedFromLock
    /\ isAtBottom = (IF scrollDifference(St) <= STICK_TO_BOTTOM_OFFSET_PX
                     THEN TRUE ELSE ev.wasAtBottom)

C24_BelowWriteAboveLast ==
    /\ ev.type = "check"
    /\ ev.ignore # Undef /\ ev.at < ev.ignore
    /\ ev.prev # Undef /\ ev.at > ev.prev

\* C24: when only the engine and the user move the offset, a notification at
\* an offset below the last programmatic write, though above lastScrollTop,
\* is classified as scrolling up: its deferred check ends with
\* escapedFromLock true and isAtBottom false.
C24_BelowWriteEscapes ==
    C24_BelowWriteAboveLast => escapedFromLock /\ ~isAtBottom

\* The next callback to run belongs to an instant loop that owns the
\* animation slot (or finds it free), with the lock held, no text selection,
\* the wait elapsed and the offset below min(startTarget,
\* calculatedTargetScrollTop).
C25_InstantFrameDue ==
    /\ phase = "raf" /\ frame # <<>> /\ Head(frame).type = "next"
    /\ LET c == loops[Head(frame).id]
       IN  /\ c.behavior.instant
           /\ animation.set => animation.behavior = c.behavior
           /\ isAtBottom /\ ~selecting /\ c.waitLeft = 0
           /\ Layout(St).domTop < Min(c.startTarget, calculatedTargetScrollTop(St))

\* C25: such a frame sets the offset to calculatedTargetScrollTop at once,
\* leaves velocity and accumulated as they were, and registers the loop's
\* next frame.
C25_InstantJump ==
    [][C25_InstantFrameDue =>
          /\ domTop' = Max(0, Max(contentHeight', clientHeight') - 1 - clientHeight')
          /\ velocity' = velocity /\ accumulated' = accumulated
          /\ Head(frame).id \in DOMAIN loops'
          /\ rafQueue' = Append(rafQueue, NextCallback(Head(frame).id))]_vars

C25_Witness ==
    /\ ev.type = "next" /\ ev.act = "jump" /\ ev.behavior.instant
    /\ ev.wrote /\ domTop = calculatedTargetScrollTop(St)
    /\ velocity # 0
    /\ ev.id \in DOMAIN loops

\* C26: a resize report with difference >= 0 calls scrollToBottom with wait
\* true and preserveScrollPosition true, with the `initial` animation at the
\* first observation of the content and the `resize` animation at every
\* later one.
C26_InitialOnlyFirst ==
    ev.type = "resize" /\ ev.difference >= 0
    => /\ Len(ev.call) = 1
       /\ ev.call[1].waitTrue /\ ev.call[1].preserveScrollPosition
       /\ ev.call[1].animation =
             BehaviorSource(mergeAnimations(
                 <<OptionsSource(options),
                   IF ev.first THEN options.initial ELSE options.resize>>))

\* C27: the deferred check of a scroll notification delivered after a resize
\* report with a nonzero difference and before that report's frame callback
\* runs while resizeDifference is still nonzero.
C27_CheckBeforeReset ==
    ev.type = "check" /\ ev.resized => ev.resizing

\* C28: once every registered frame callback and every timer has run, with
\* no report of the ResizeObserver outstanding, resizeDifference is 0,
\* whatever resize reports came before.
C28_ResizeDifferenceTransient ==
    /\ phase = "idle" /\ rafQueue = <<>> /\ timers = <<>>
    /\ ~ROPending(St)
    => resizeDifference = 0

C28_Witness ==
    /\ phase = "idle" /\ rafQueue = <<>> /\ timers = <<>>
    /\ ~ROPending(St)
    /\ ev.type = "resizeReset" /\ budget = 0
    /\ resizeDifference = 0

\* What a spring frame adds to accumulated: the new velocity times the tick
\* delta since the last tick.
C29_Integrated ==
    accumulated + TimesTickDelta(velocity', IF lastTick THEN sinceTick ELSE 0)

C29_Moved == domTop' # Layout(St).domTop

\* C29 (as stated): a spring frame clears accumulated only when its write
\* did not move the offset, and keeps the integrated value when it did.
C29_ResetWhenStill ==
    [][ev'.type = "next" /\ ev'.act = "spring" =>
          accumulated' = IF C29_Moved THEN C29_Integrated ELSE 0]_vars

\* C29 (amended): a spring frame clears accumulated only when its write
\* moved the offset, and keeps the integrated value when it did not.
C29_ResetWhenMoved ==
    [][ev'.type = "next" /\ ev'.act = "spring" =>
          accumulated' = IF C29_Moved THEN 0 ELSE C29_Integrated]_vars

C29_Witness ==
    /\ ev.type = "next" /\ ev.act = "spring"
    /\ ~ev.wrote /\ accumulated > 0
    /\ domTop < MaxScrollTop(St)

\* C30: the frame callback registered when a loop's promise settles, finding
\* no animation in the slot, leaves lastTick undefined, velocity 0 and
\* accumulated 0.
C30_ExitResetsIntegration ==
    ev.type = "exitReset" /\ ~animation.set
    => ~lastTick /\ velocity = 0 /\ accumulated = 0

\* C31: in document mode a scroll notification of the page is handled as in
\* element mode: it records its offset in lastScrollTop, clears
\* ignoreScrollToTop and sets the deferred check that classifies it.
C31_DocumentScrollHandled ==
    ev.type = "scroll" /\ scrollMode = "document"
    => /\ lastScrollTop = ev.at
       /\ ignoreScrollToTop = Undef
       /\ timers # <<>> /\ timers[Len(timers)].type = "scroll"

\* No loop of scrollToBottom is pending and the animation slot is free.
C32_Quiet == loops = <<>> /\ ~animation.set

\* C32: with frames and timers fair, finitely many changes of the content
\* and calls with numeric wait and duration, either a text selection is held
\* for ever or from some state on every promise has resolved: no loop is
\* pending and state.animation is undefined.
C32_CallsSettle == <>[]selecting \/ <>[]C32_Quiet
====
